---- MODULE Spec2Model ----
(***************************************************************************)
(* Model of the report-generation pipeline of the diabetes consultant     *)
(* application: ReportOrchestrator.generate_report with its retry loop,   *)
(* _call_llm_for_report, _validate_citations and save_report              *)
(* (agents/report_orchestrator.py), RAGRetriever.retrieve and             *)
(* build_retrieval_query (rag/retriever.py), and the part of              *)
(* render_report_generation (app.py) that drives them; merge_data_sources  *)
(* with normalize_patient_data (utils/formatters.py); the index builder    *)
(* (rag/index_builder.py) and ensure_rag_index (app.py).                   *)
(* Further parts model the PDF parser (agents/pdf_parser.py), the script   *)
(* runs of a Streamlit session with the conflict resolver                  *)
(* (ui/components.py), and a build of the index that runs beside a         *)
(* session that loads it.                                                  *)
(***************************************************************************)
EXTENDS Integers, Sequences, FiniteSets, TLC

VARIABLES
    pc,              \* position of the request: "idle", "ensured", "attempting",
                     \* "returned"
    req,             \* number of generation requests started so far
    today,           \* position of the current date in DateStrs
    index,           \* RAGRetriever.index / RAGRetriever.metadata
    rag_disk,        \* the files index.faiss and metadata.json of data/rag
    patient_data,    \* argument of generate_report
    max_retries,     \* argument of generate_report
    snippets,        \* local of generate_report: the retrieved passages
    context,         \* local of generate_report: the "previous_error" entry
    attempt,         \* loop variable of generate_report
    errors,          \* local of generate_report, second component of its result
    report,          \* first component of the result of generate_report
    requests,        \* the messages of every model request issued by this call
    replies,         \* the reply of the generation endpoint to each of them
    ui,              \* what render_report_generation last showed
    storage,         \* data/patients/<uuid>/<date>/{report.json,patient_data.json}
    v_report,        \* argument of _validate_citations (function-level check)
    v_snippets,      \* argument of _validate_citations (function-level check)
    v_result,        \* outcome of _validate_citations (function-level check)
    q_patient,       \* argument of build_retrieval_query (function-level check)
    q_result,        \* outcome of build_retrieval_query (function-level check)
    m_form,          \* argument form_data of merge_data_sources, a dict
    m_pdf,           \* argument pdf_data of merge_data_sources, a dict
    m_conflicts,     \* argument conflicts of merge_data_sources, a dict
    m_merged,        \* local merged_data of merge_data_sources
    m_result,        \* outcome of merge_data_sources
    b_guidelines,    \* result of load_guidelines in build_index
    b_model,         \* RAGIndexBuilder.embedding_model
    b_disk,          \* the files of data/rag around build_index
    b_result,        \* outcome of build_index
    r_index,         \* RAGRetriever.index / metadata (function-level check)
    r_k,             \* argument k of retrieve (function-level check)
    r_out,           \* outcome of retrieve (function-level check)
    x_input,         \* argument of extract_structured_data (a text) or parse_pdf (a file)
    x_reply,         \* what the extraction endpoint answers when it is called
    x_result,        \* outcome of extract_structured_data / parse_pdf
    x_calls,         \* number of model calls made by that invocation
    s_state,         \* st.session_state: patient_data, pdf_data, conflicts
    s_choices,       \* the resolutions the user has clicked, by field
    s_handed,        \* the PatientIntake handed to generate_report
    k_disk,          \* the files of data/rag shared by two sessions
    k_build,         \* the session running build_index: its position and arguments
    k_read,          \* position of the session that requests a report
    k_index          \* the index and metadata its retriever has loaded

mainVars == <<pc, req, today, index, rag_disk, patient_data, max_retries, snippets, context,
              attempt, errors, report, requests, replies, ui, storage>>

callVars == <<patient_data, max_retries, snippets, context, attempt, errors,
              report, requests, replies>>

valVars == <<v_report, v_snippets, v_result>>

queryVars == <<q_patient, q_result>>

mergeVars == <<m_form, m_pdf, m_conflicts, m_merged, m_result>>

buildVars == <<b_guidelines, b_model, b_disk, b_result>>

retrieveVars == <<r_index, r_k, r_out>>

extractVars == <<x_input, x_reply, x_result, x_calls>>

sessionVars == <<s_state, s_choices, s_handed>>

raceVars == <<k_disk, k_build, k_read, k_index>>

otherVars == <<extractVars, sessionVars, raceVars>>

fnVars == <<valVars, queryVars, mergeVars, buildVars, retrieveVars, otherVars>>

vars == <<mainVars, fnVars>>

(***************************************************************************)
(* Bounds of the model.                                                    *)
(***************************************************************************)
MaxRetriesBound == 1
MaxRequests == 2

\* Python's None, and an Optional value that is set.
None == <<>>
Some(v) == <<v>>

\* The fan-out of the retrieval issued by generate_report.
RetrievalK == 6

Range(s) == {s[i] : i \in 1..Len(s)}

Min(a, b) == IF a <= b THEN a ELSE b

(***************************************************************************)
(* Outcome of a Python call: a returned value or a raised exception,       *)
(* the latter carrying str(e).                                             *)
(***************************************************************************)
Return(v) == [raised |-> FALSE, value |-> v]
Raise(m) == [raised |-> TRUE, msg |-> m]

(***************************************************************************)
(* PatientIntake.dict(): the fields that build_retrieval_query reads, and  *)
(* the uuid that names the storage directory.  An Optional field is None   *)
(* or Some(v); numbers are in tenths where the source has one decimal.     *)
(* The lipids dict is the set of its <<key, value>> items.                 *)
(* A medication entry is a Dict: it may have no "name" key, and the value  *)
(* of the key may be null.                                                 *)
(***************************************************************************)
NullName == "<null>"

InsulinNames == {"Insulin aspart", "insulin glargine"}

PatientIntake(u, h, b, l, hy, m) ==
    [uuid |-> u, diabetes_type |-> "T1DM",
     labs |-> [hba1c_pct |-> h, lipids |-> l],
     bp_sys |-> b, hypos_90d |-> hy, meds |-> m]

\* The sample patient of the orchestrator's own test block: hypos_90d is unset.
SamplePatient ==
    PatientIntake("u1", Some(83), Some(127), Some({<<"ldl", Some(32)>>, <<"tc", Some(52)>>}), None,
                  <<[name |-> "Insulin aspart"]>>)

\* Patients as the intake form builds them: hypos_90d is always an int.
FormPatients ==
    {PatientIntake("u1", Some(70), None, None, Some(0), <<[name |-> "Metformin"]>>),
     PatientIntake("u2", None, Some(140), Some({<<"hdl", Some(11)>>}), Some(2),
                   <<[name |-> "insulin glargine"]>>)}

Patients == {SamplePatient} \cup FormPatients

\* Python truthiness of an Optional number, and of an Optional container.
TruthyNumber(o) == o # None /\ o[1] # 0
TruthyContainer(o) == o # None /\ o[1] # {}

\* med.get('name', '').lower(), and the scan of any(...) over the medications:
\* it stops at the first name that contains "insulin", and raises on a null name.
RECURSIVE AnyInsulin(_, _)
AnyInsulin(meds, i) ==
    IF i > Len(meds) THEN Return(FALSE)
    ELSE IF "name" \notin DOMAIN meds[i] THEN AnyInsulin(meds, i + 1)
    ELSE IF meds[i].name = NullName
         THEN Raise("'NoneType' object has no attribute 'lower'")
    ELSE IF meds[i].name \in InsulinNames THEN Return(TRUE)
    ELSE AnyInsulin(meds, i + 1)

\* build_retrieval_query without the phrase appended at line 126: the fallback of
\* line 129 becomes reachable.
build_retrieval_query_no_screening(p) ==
    LET p1 == IF p.diabetes_type # "" THEN <<p.diabetes_type \o " diabetes">> ELSE <<>>
        p2 == IF TruthyNumber(p.labs.hba1c_pct)
              THEN <<"HbA1c blood glucose control">> ELSE <<>>
        p3 == IF TruthyNumber(p.bp_sys) THEN <<"blood pressure hypertension">> ELSE <<>>
        p4 == IF TruthyContainer(p.labs.lipids)
              THEN <<"cholesterol lipids cardiovascular risk">> ELSE <<>>
        ins == AnyInsulin(p.meds, 1)
    IN  IF p.hypos_90d = None
        THEN Raise("'>' not supported between instances of 'NoneType' and 'int'")
        ELSE IF ins.raised THEN ins
        ELSE LET p5 == IF p.hypos_90d[1] > 0 THEN <<"hypoglycaemia management">> ELSE <<>>
                 p6 == IF ins.value THEN <<"insulin therapy">> ELSE <<>>
                 query == p1 \o p2 \o p3 \o p4 \o p5 \o p6
             IN  Return(IF query # <<>> THEN query
                        ELSE <<"diabetes management guidelines">>)

\* RAGRetriever.build_retrieval_query.  The query is the list of its phrases,
\* which the source joins with single spaces.
build_retrieval_query(p) ==
    LET p1 == IF p.diabetes_type # "" THEN <<p.diabetes_type \o " diabetes">> ELSE <<>>
        p2 == IF TruthyNumber(p.labs.hba1c_pct)
              THEN <<"HbA1c blood glucose control">> ELSE <<>>
        p3 == IF TruthyNumber(p.bp_sys) THEN <<"blood pressure hypertension">> ELSE <<>>
        p4 == IF TruthyContainer(p.labs.lipids)
              THEN <<"cholesterol lipids cardiovascular risk">> ELSE <<>>
        ins == AnyInsulin(p.meds, 1)
    IN  IF p.hypos_90d = None
        THEN Raise("'>' not supported between instances of 'NoneType' and 'int'")
        ELSE IF ins.raised THEN ins
        ELSE LET p5 == IF p.hypos_90d[1] > 0 THEN <<"hypoglycaemia management">> ELSE <<>>
                 p6 == IF ins.value THEN <<"insulin therapy">> ELSE <<>>
                 query == p1 \o p2 \o p3 \o p4 \o p5 \o p6
                          \o <<"screening retinopathy kidney foot">>
             IN  Return(IF query # <<>> THEN query
                        ELSE <<"diabetes management guidelines">>)

\* The dicts that build_retrieval_query is checked on: its parameter is a plain
\* Dict, so the diabetes type may be empty, HbA1c may be 0, and the lipids dict
\* may be empty or hold only null values.
QueryPatient(t, h, b, l, hy, m) ==
    [PatientIntake("u1", h, b, l, hy, m) EXCEPT !.diabetes_type = t]

QueryPatients ==
    {QueryPatient(t, h, b, l, hy, m) :
        t \in {"", "T1DM"},
        h \in {None, Some(0), Some(83)},
        b \in {None, Some(127)},
        l \in {None, Some({}), Some({<<"tc", None>>}), Some({<<"ldl", Some(32)>>})},
        hy \in {None, Some(0), Some(2)},
        m \in {<<>>, <<[name |-> "Metformin"]>>, <<[name |-> "insulin glargine"]>>,
               <<[dose |-> "500mg"]>>, <<[name |-> NullName]>>}}

(***************************************************************************)
(* merge_data_sources and normalize_patient_data.  form_data, pdf_data and *)
(* conflicts are dicts: functions from their keys.  In this part a number  *)
(* is in hundredths (753 is 7.53), so that rounding to one decimal and to  *)
(* an integer is visible; a confidence is in hundredths too.               *)
(***************************************************************************)
ConfidenceThreshold == 70

\* Python's round(): to a multiple of unit, a tie going to the even multiple.
RoundHalfEven(v, unit) ==
    LET q == v \div unit
        r == v % unit
    IN  IF 2 * r < unit THEN q * unit
        ELSE IF 2 * r > unit THEN (q + 1) * unit
        ELSE IF q % 2 = 0 THEN q * unit ELSE (q + 1) * unit

round_sensibly(value) ==
    IF value = None THEN None ELSE Some(RoundHalfEven(value[1], 10))

Labs(h, l) == [hba1c_pct |-> h, lipids |-> [ldl |-> l]]

\* form_data as the intake form builds it: every key is present, bp_sys is a
\* float or None.
FormDicts ==
    {[bp_sys |-> b, hypos_90d |-> Some(0), labs |-> Labs(h, Some(250))] :
        b \in {None, Some(12760)}, h \in {Some(700), Some(753)}}

\* pdf_data: any of the keys, with the extracted value, and the dict of the
\* confidences under '_confidence', which may lack a field or be absent.
PdfFields == {"bp_sys", "hba1c_pct", "labs"}

PdfValue(f) ==
    CASE f = "bp_sys" -> Some(13140)
      [] f = "hba1c_pct" -> Some(750)
      [] f = "labs" -> Labs(Some(828), Some(261))

Confidences == {30, 70, 90}

PdfDicts ==
    UNION {{[f \in K |-> PdfValue(f)]}
           \cup {[f \in K |-> PdfValue(f)] @@ ("_confidence" :> c) :
                    c \in UNION {[C -> Confidences] : C \in SUBSET K}} :
           K \in SUBSET PdfFields}

\* conflicts: the user's resolutions {field: 'form' | 'pdf'}.
ConflictDicts == UNION {[C -> {"form", "pdf"}] : C \in SUBSET PdfFields}

\* pdf_data.get('_confidence', {}).get(field, 0)
Confidence(pdf, field) ==
    IF "_confidence" \in DOMAIN pdf /\ field \in DOMAIN pdf["_confidence"]
    THEN pdf["_confidence"][field] ELSE 0

\* The test of the merge loop with >= for >.
TakesPdf_at_threshold(pdf, conflicts, field) ==
    IF field \notin DOMAIN conflicts
    THEN Confidence(pdf, field) >= ConfidenceThreshold
    ELSE conflicts[field] = "pdf"

\* The test of the merge loop, lines 39-44: is merged_data[field] assigned?
TakesPdf(pdf, conflicts, field) ==
    IF field \notin DOMAIN conflicts
    THEN Confidence(pdf, field) > ConfidenceThreshold
    ELSE conflicts[field] = "pdf"

\* merged_data after the loop of lines 38-45.
MergedData(form, pdf, conflicts) ==
    LET taken == {f \in DOMAIN pdf : TakesPdf(pdf, conflicts, f)}
    IN  [f \in DOMAIN form \cup taken |-> IF f \in taken THEN pdf[f] ELSE form[f]]

\* The labs dict after the in-place rounding of normalize_patient_data.
NormalizedLabs(labs) ==
    [hba1c_pct |-> round_sensibly(labs.hba1c_pct),
     lipids |-> [ldl |-> round_sensibly(labs.lipids.ldl)]]

\* normalize_patient_data: the returned dict, or the TypeError of round(None).
\* The labs dict is rounded before bp_sys is.
normalize_patient_data(raw) ==
    IF "bp_sys" \in DOMAIN raw /\ raw["bp_sys"] = None
    THEN Raise("type NoneType doesn't define __round__ method")
    ELSE Return([f \in DOMAIN raw |->
                    IF f = "labs" THEN NormalizedLabs(raw[f])
                    ELSE IF f = "bp_sys" THEN Some(RoundHalfEven(raw[f][1], 100))
                    ELSE raw[f]])

\* PatientIntake(**normalized_data): keys that are no field of the schema are
\* ignored.
SchemaFields == {"bp_sys", "hypos_90d", "labs"}

\* merge_data_sources.  merged_data and normalized are shallow copies, so the
\* labs dict that is rounded in place is the one of form_data, or the one of
\* pdf_data when the PDF value of 'labs' was taken; afterwards holds what the
\* two arguments hold after the call.
merge_data_sources(form, pdf, conflicts) ==
    LET merged == MergedData(form, pdf, conflicts)
        normalized == normalize_patient_data(merged)
        from_pdf == "labs" \in DOMAIN pdf /\ TakesPdf(pdf, conflicts, "labs")
    IN  [merged |-> merged,
         result |-> IF normalized.raised THEN normalized
                    ELSE Return([f \in DOMAIN normalized.value \cap SchemaFields |->
                                    normalized.value[f]]),
         form |-> IF from_pdf THEN form
                  ELSE [form EXCEPT !["labs"] = NormalizedLabs(@)],
         pdf |-> IF from_pdf THEN [pdf EXCEPT !["labs"] = NormalizedLabs(@)]
                 ELSE pdf]

(***************************************************************************)
(* The index builder.  A guideline has an id, a source, a section and a    *)
(* text, which the model keeps as its number of words.  chunk_text cuts    *)
(* the words into windows of ChunkSize words that start every              *)
(* ChunkSize - Overlap words.                                              *)
(***************************************************************************)
ChunkSize == 1000
Overlap == 200

\* The embedding model of the retriever is fixed; the builder reads its own from
\* the environment variable EMBEDDING_MODEL, with the same default.
RetrieverModel == "text-embedding-ada-002"
BuilderModels == {"text-embedding-ada-002", "text-embedding-3-small"}

Guideline(i, s, sec, w) == [id |-> i, source |-> s, section |-> sec, words |-> w]

\* load_guidelines: the curated passages (the first two of the six).
Guidelines ==
    <<Guideline("nice_ng17_hba1c", "NICE NG17", "Blood glucose management", 66),
      Guideline("nice_ng28_bp", "NICE NG28", "Blood pressure management", 55)>>

\* chunk_text: one chunk for every start 0, step, 2 * step, ... below the length.
chunk_text(words) ==
    LET step == ChunkSize - Overlap
        count == (words + step - 1) \div step
    IN  [j \in 1..count |-> [from |-> (j - 1) * step,
                             to |-> Min((j - 1) * step + ChunkSize, words)]]

\* The chunks of the guidelines in the order build_index appends them, each with
\* the metadata entry appended beside it.
RECURSIVE AllChunks(_)
AllChunks(guidelines) ==
    IF guidelines = <<>> THEN <<>>
    ELSE LET g == Head(guidelines)
             chunks == chunk_text(g.words)
         IN  [i \in 1..Len(chunks) |->
                 [chunk |-> [guideline |-> g.id, from |-> chunks[i].from,
                             to |-> chunks[i].to],
                  metadata |-> [id |-> g.id \o "_chunk_" \o ToString(i - 1),
                                source |-> g.source, section |-> g.section]]]
             \o AllChunks(Tail(guidelines))

\* Guidelines of other lengths, for the builder on its own: one that gives two
\* chunks and one whose text has no word.
LongGuideline == Guideline("nice_ng28_lipids", "NICE NG28", "Lipid management", 900)

EmptyGuideline == Guideline("bda_carb_counting", "BDA Guidelines", "Carbohydrate counting", 0)

Corpora ==
    LET gs == {Guidelines[1], LongGuideline, EmptyGuideline}
    IN  {<<>>} \cup {<<g>> : g \in gs}
        \cup {<<g, h>> : <<g, h>> \in {x \in gs \X gs : x[1] # x[2]}}

\* get_embeddings when the endpoint drops the vector of the last input.
get_embeddings_dropping_last(texts) ==
    [i \in 1..(Len(texts) - 1) |-> [embedding_of |-> texts[i]]]

\* get_embeddings: the endpoint returns one vector per input, in the order of
\* the inputs.  A vector is kept as the chunk it embeds.
get_embeddings(texts) ==
    [i \in 1..Len(texts) |-> [embedding_of |-> texts[i]]]

\* The two files of data/rag: index.faiss holds the vectors and (known to the
\* model only, the file has no such field) the model that embedded them;
\* metadata.json holds the metadata list.  None is a file that does not exist.
NoFiles == [index |-> None, metadata |-> None]

\* How a build can end once there are chunks: every step succeeds, the embedding
\* call raises, or the write of index.faiss or of metadata.json raises.
BuildOutcomes == {"ok", "embedding_fails", "index_write_fails", "metadata_write_fails"}

\* RAGIndexBuilder.build_index: the exception or the returned pair, and the files
\* it leaves.
build_index(guidelines, model, disk, outcome) ==
    LET all == AllChunks(guidelines)
        all_chunks == [i \in 1..Len(all) |-> all[i].chunk]
        metadata == [i \in 1..Len(all) |-> all[i].metadata]
        built == [vectors |-> get_embeddings(all_chunks), model |-> model]
    IN  IF guidelines = <<>>
        THEN [result |-> Raise("No guidelines found to index"), disk |-> disk]
        ELSE IF all_chunks = <<>>
        THEN [result |-> Raise("No text chunks were generated from guidelines"),
              disk |-> disk]
        ELSE IF outcome = "embedding_fails"
        THEN [result |-> Raise("Connection error."), disk |-> disk]
        ELSE IF Len(built.vectors) = 0
        THEN [result |-> Raise("Failed to add vectors to index"), disk |-> disk]
        ELSE IF outcome = "index_write_fails"
        THEN [result |-> Raise("Error: could not open index.faiss for writing"),
              disk |-> disk]
        ELSE IF outcome = "metadata_write_fails"
        THEN [result |-> Raise("[Errno 28] No space left on device"),
              disk |-> [disk EXCEPT !.index = Some(built)]]
        ELSE [result |-> Return([index |-> built, metadata |-> metadata]),
              disk |-> [index |-> Some(built), metadata |-> Some(metadata)]]

(***************************************************************************)
(* The retriever.  index is None when no index is loaded, otherwise the    *)
(* vectors of index.faiss with the metadata list.  The embedding of the    *)
(* query and the similarity search are external: the search ranks the      *)
(* vectors by their similarity to the query, which the model draws from    *)
(* Scores, and retrieve returns [] when the embedding raises.              *)
(***************************************************************************)
\* RAGRetriever._load_index: both files must exist.
load_index(disk) ==
    IF disk.index = None \/ disk.metadata = None THEN None
    ELSE Some([vectors |-> disk.index[1].vectors, model |-> disk.index[1].model,
               metadata |-> disk.metadata[1]])

\* The files of a successful build of the guidelines, and the index loaded from them.
BuiltFiles == build_index(Guidelines, RetrieverModel, NoFiles, "ok").disk

Metadata == BuiltFiles.metadata[1]

Indexes == {None, load_index(BuiltFiles)}

\* Similarities of the query to a vector, in hundredths.
Scores == {80, 90}

Rankings(n, k) ==
    {r \in [1..k -> 1..n] : \A i, j \in 1..k : i # j => r[i] # r[j]}

\* index.search: the k best positions in non-increasing order of similarity.
Searches(n, k) ==
    {[rank |-> r, score |-> [i \in 1..k |-> sc[r[i]]]] :
        <<sc, r>> \in {x \in [1..n -> Scores] \X Rankings(n, k) :
            /\ \A i, j \in 1..k : i < j => x[1][x[2][i]] >= x[1][x[2][j]]
            /\ \A q \in 1..n : (\A i \in 1..k : x[2][i] # q)
                                  => x[1][q] <= x[1][x[2][k]]}}

\* The loop over zip(scores[0], indices[0]) copying the first metadata entry
\* for every hit.
RECURSIVE FormatResults_first_entry(_, _, _)
FormatResults_first_entry(metadata, hit, i) ==
    IF i > Len(hit.rank) THEN <<>>
    ELSE (IF hit.rank[i] <= Len(metadata)
          THEN <<metadata[1] @@ ("relevance_score" :> hit.score[i])>>
          ELSE <<>>)
         \o FormatResults_first_entry(metadata, hit, i + 1)

\* The loop over zip(scores[0], indices[0]): the hits whose position has a
\* metadata entry, each a copy of that entry with the score added.
RECURSIVE FormatResults(_, _, _)
FormatResults(metadata, hit, i) ==
    IF i > Len(hit.rank) THEN <<>>
    ELSE (IF hit.rank[i] <= Len(metadata)
          THEN <<metadata[hit.rank[i]] @@ ("relevance_score" :> hit.score[i])>>
          ELSE <<>>)
         \o FormatResults(metadata, hit, i + 1)

NoHit == [rank |-> <<>>, score |-> <<>>]

\* RAGRetriever.retrieve: the results, whether index.search was called, and
\* what it returned.  The first outcome is the one of get_embedding raising.
retrieve_outcomes(idx, k) ==
    IF idx = None THEN {[results |-> <<>>, searched |-> FALSE, hit |-> NoHit]}
    ELSE LET metadata == idx[1].metadata
             ntotal == Len(idx[1].vectors)
             kk == IF ntotal > 0 THEN Min(k, ntotal) ELSE 0
         IN  {[results |-> <<>>, searched |-> FALSE, hit |-> NoHit]} \cup
             (IF kk = 0 THEN {[results |-> <<>>, searched |-> FALSE, hit |-> NoHit]}
              ELSE {[results |-> FormatResults(metadata, hit, 1), searched |-> TRUE,
                     hit |-> hit] :
                       hit \in Searches(ntotal, kk)})

retrieve(idx, query, k) == {o.results : o \in retrieve_outcomes(idx, k)}

(***************************************************************************)
(* ReportOut: the fields that carry citation ids.  lifestyle_plan and      *)
(* medication_plan are lists of Recommendation (citation_ids is a list of  *)
(* strings, by the schema); interpretation and citations are List[Dict]    *)
(* and diet_plan, monitoring_plan are Dict, whose keys the schema leaves   *)
(* open: an interpretation item may have no "citation_ids" key, a          *)
(* citations entry may have no "id" key.                                   *)
(***************************************************************************)
\* Ids the model may cite: the first is a passage of the index, "x9" is of none.
CitedIds == {"nice_ng17_hba1c_chunk_0", "x9"}

Recommendation(ids) == [text |-> "advice", citation_ids |-> ids]

Plans == {<<>>} \cup {<<Recommendation(ids)>> : ids \in SUBSET CitedIds}
         \cup {<<Recommendation({"nice_ng17_hba1c_chunk_0"}), Recommendation({"x9"})>>}

Interpretations ==
    {<<>>, <<[problem |-> "HbA1c"]>>}
    \cup {<<[problem |-> "HbA1c", citation_ids |-> ids]>> : ids \in SUBSET CitedIds}

PlainDict == [principles |-> "plate"]

CitationLists ==
    {<<>>, <<[source |-> "NICE"]>>}
    \cup {<<[id |-> i, source |-> "NICE"]>> : i \in CitedIds}
    \cup {<<[id |-> "nice_ng17_hba1c_chunk_0", source |-> "NICE"], [id |-> "nice_ng28_bp_chunk_0", source |-> "NICE"]>>}

ReportOut(i, l, m, d, mo, c) ==
    [interpretation |-> i, lifestyle_plan |-> l, medication_plan |-> m,
     diet_plan |-> d, monitoring_plan |-> mo, citations |-> c]

\* Every report of the bounded shape: the inputs of the function-level check.
AllReports ==
    {ReportOut(i, l, m, d, mo, c) :
        i \in Interpretations, l \in Plans, m \in Plans,
        d \in {PlainDict}, mo \in {PlainDict},
        c \in CitationLists}

\* The reports the generation model answers with in the request-level model.
Cited(ids) == <<Recommendation(ids)>>
Listed(list) == [i \in 1..Len(list) |-> [id |-> list[i], source |-> "NICE"]]
SampleReports ==
    { \* every body citation retrieved and listed
      ReportOut(<<[problem |-> "HbA1c", citation_ids |-> {"nice_ng17_hba1c_chunk_0"}]>>, Cited({"nice_ng17_hba1c_chunk_0"}),
                Cited({"nice_ng17_hba1c_chunk_0"}), [principles |-> "plate", citation_ids |-> {"nice_ng17_hba1c_chunk_0"}],
                [principles |-> "plate", citation_ids |-> {"nice_ng17_hba1c_chunk_0"}], Listed(<<"nice_ng17_hba1c_chunk_0">>)),
      \* a lifestyle recommendation cites a passage that was never retrieved
      ReportOut(<<[problem |-> "HbA1c"]>>, Cited({"x9"}), Cited({"nice_ng17_hba1c_chunk_0"}),
                [principles |-> "plate"], [principles |-> "plate"], Listed(<<"nice_ng17_hba1c_chunk_0", "x9">>)),
      \* only the diet plan cites a passage that was never retrieved
      ReportOut(<<>>, Cited({"nice_ng17_hba1c_chunk_0"}), <<>>, [principles |-> "plate", citation_ids |-> {"x9"}],
                [principles |-> "plate"], Listed(<<"nice_ng17_hba1c_chunk_0">>)),
      \* the body cites a retrieved passage that the citations list omits
      ReportOut(<<>>, Cited({"nice_ng17_hba1c_chunk_0"}), Cited({"nice_ng17_hba1c_chunk_0"}), [principles |-> "plate"],
                [principles |-> "plate"], <<>>),
      \* a citations entry without an "id" key
      ReportOut(<<>>, Cited({"nice_ng17_hba1c_chunk_0"}), <<>>, [principles |-> "plate"],
                [principles |-> "plate"], <<[source |-> "NICE"]>>) }

\* The replies of the generation endpoint to one request: the call raises, or it
\* returns a text that is no JSON, a JSON object of the wrong shape, or a report.
ApiError == "Connection error."
JsonError == "Expecting value: line 1 column 1 (char 0)"
SchemaError == "1 validation error for ReportOut"
KeyErrorId == "'id'"

Replies(reports) ==
    {[kind |-> "api_error"], [kind |-> "not_json"], [kind |-> "bad_shape"]}
    \cup {[kind |-> "report", report |-> r] : r \in reports}

\* The messages with a context that carries no retrieved snippet.
Messages_empty_snippets(ctx, snips) ==
    <<[role |-> "system", part |-> "prompt"],
      [role |-> "user", part |-> "context", retrieved_snippets |-> <<>>]>>
    \o (IF ctx.previous_error # None /\ ctx.previous_error[1] # ""
        THEN <<[role |-> "user", part |-> "previous_error",
                error |-> ctx.previous_error[1]]>>
        ELSE <<>>)

\* The messages _call_llm_for_report sends: the system prompt, the context
\* (with the retrieved snippets), and the previous error when it is truthy.
Messages_no_feedback(ctx, snips) ==
    <<[role |-> "system", part |-> "prompt"],
      [role |-> "user", part |-> "context", retrieved_snippets |-> snips]>>
Messages(ctx, snips) ==
    <<[role |-> "system", part |-> "prompt"],
      [role |-> "user", part |-> "context", retrieved_snippets |-> snips]>>
    \o (IF ctx.previous_error # None /\ ctx.previous_error[1] # ""
        THEN <<[role |-> "user", part |-> "previous_error",
                error |-> ctx.previous_error[1]]>>
        ELSE <<>>)

\* _call_llm_for_report followed by ReportOut(**report_json): the parsed report,
\* or the exception of the call, of json.loads or of the schema validation.
parse_report(reply) ==
    IF reply.kind = "api_error" THEN Raise(ApiError)
    ELSE IF reply.kind = "not_json" THEN Raise(JsonError)
    ELSE IF reply.kind = "bad_shape" THEN Raise(SchemaError)
    ELSE Return(reply.report)

\* The union of the citation_ids of the items of a plan.
PlanIds(plan) == UNION {plan[i].citation_ids : i \in 1..Len(plan)}

\* interp.get('citation_ids', []) over the interpretation items.
InterpretationIds(interp) ==
    UNION {IF "citation_ids" \in DOMAIN interp[i] THEN interp[i].citation_ids ELSE {}
           : i \in 1..Len(interp)}

\* ReportOrchestrator._validate_citations: cite['id'] raises KeyError on an entry
\* of the citations list that has no "id" key.
validate_citations(rep, snips) ==
    LET snippet_ids == {snips[i].id : i \in 1..Len(snips)}
        body == PlanIds(rep.lifestyle_plan) \cup PlanIds(rep.medication_plan)
                \cup InterpretationIds(rep.interpretation)
    IN  IF \E i \in 1..Len(rep.citations) : "id" \notin DOMAIN rep.citations[i]
        THEN Raise(KeyErrorId)
        ELSE LET citation_ids_in_list ==
                     {rep.citations[i].id : i \in 1..Len(rep.citations)}
                 all_citation_ids == body \cup citation_ids_in_list
                 invalid_citations == all_citation_ids \ snippet_ids
             IN  Return(invalid_citations = {})

(***************************************************************************)
(* Persistence.  A directory data/patients/<uuid>/<date> holds report.json *)
(* and patient_data.json; the content of a file is named by the number of  *)
(* the generation request that wrote it, 0 for a file that does not exist. *)
(***************************************************************************)
DateStrs == <<"2025-01-01", "2025-01-02">>

Uuids == {p.uuid : p \in Patients}

Dirs == Uuids \X Range(DateStrs)

EmptyDir == [report |-> 0, patient |-> 0]

\* How the two writes of save_report can end: both succeed, opening report.json
\* raises, or report.json is written and the write of patient_data.json raises.
SaveOutcomes == {"ok", "report_write_fails", "patient_write_fails"}

\* ReportOrchestrator.save_report: report.json is written first.
save_report(store, uuid, date_str, content, outcome) ==
    LET patient_dir == <<uuid, date_str>>
    IN  IF outcome = "report_write_fails" THEN store
        ELSE IF outcome = "patient_write_fails"
             THEN [store EXCEPT ![patient_dir].report = content]
        ELSE [store EXCEPT ![patient_dir] = [report |-> content, patient |-> content]]

(***************************************************************************)
(* The entries of the error list of generate_report.                       *)
(***************************************************************************)
AttemptFailed(n, e) == [kind |-> "Attempt failed", attempt |-> n, msg |-> e]
InvalidCitations == [kind |-> "warning", attempt |-> 0, msg |-> "Some citations are invalid"]
GenerationFailed(e) == [kind |-> "Report generation failed", attempt |-> 0, msg |-> e]

\* The handler of the retry loop records the failure of attempt number attempt + 1.
inner_handler_dropping(errs, att, e) == <<AttemptFailed(att + 1, e)>>
inner_handler(errs, att, e) == Append(errs, AttemptFailed(att + 1, e))

\* The outer handler of generate_report records the failure of the call.
outer_handler_silent(errs, e) == errs
outer_handler(errs, e) == Append(errs, GenerationFailed(e))

\* "if report:" in render_report_generation.
report_truthy_always(r) == TRUE
report_truthy(r) == r # None

NoCall ==
    /\ patient_data = None
    /\ max_retries = 0
    /\ snippets = <<>>
    /\ context = [previous_error |-> None]
    /\ attempt = 0
    /\ errors = <<>>
    /\ report = None
    /\ requests = <<>>
    /\ replies = <<>>

NoValidation ==
    /\ v_report = None
    /\ v_snippets = <<>>
    /\ v_result = None

NoQuery ==
    /\ q_patient = None
    /\ q_result = None

NoMerge ==
    /\ m_form = None
    /\ m_pdf = None
    /\ m_conflicts = None
    /\ m_merged = None
    /\ m_result = None

NoBuild ==
    /\ b_guidelines = <<>>
    /\ b_model = ""
    /\ b_disk = NoFiles
    /\ b_result = None

NoRetrieve ==
    /\ r_index = None
    /\ r_k = 0
    /\ r_out = None

NoExtraction ==
    /\ x_input = None
    /\ x_reply = None
    /\ x_result = None
    /\ x_calls = 0

NoSession ==
    /\ s_state = None
    /\ s_choices = None
    /\ s_handed = None

NoRace ==
    /\ k_disk = NoFiles
    /\ k_build = None
    /\ k_read = ""
    /\ k_index = None

\* No request has been made.
MainIdle ==
    /\ pc = "idle"
    /\ req = 0
    /\ today = 1
    /\ rag_disk = NoFiles
    /\ NoCall
    /\ ui = ""
    /\ storage = [d \in Dirs |-> EmptyDir]

\* The application starts with data/rag empty or holding a built index; no
\* retriever has been constructed.
Init ==
    /\ pc = "idle"
    /\ req = 0
    /\ today = 1
    /\ index = None
    /\ rag_disk \in {NoFiles, BuiltFiles}
    /\ NoCall
    /\ ui = ""
    /\ storage = [d \in Dirs |-> EmptyDir]
    /\ NoValidation
    /\ NoQuery
    /\ NoMerge
    /\ NoBuild
    /\ NoRetrieve
    /\ NoExtraction
    /\ NoSession
    /\ NoRace

\* What a click can meet in ensure_rag_index: no API key in the environment, or
\* one of the ways a build can end.
EnsureOutcomes == BuildOutcomes \cup {"no_api_key"}

\* ensure_rag_index: True when index.faiss exists, otherwise the index is built
\* (EMBEDDING_MODEL is unset) and the result is True when the build returned
\* and index.faiss exists; every exception gives False.
ensure_rag_index(disk, outcome) ==
    IF outcome = "no_api_key" THEN [value |-> FALSE, disk |-> disk]
    ELSE IF disk.index # None THEN [value |-> TRUE, disk |-> disk]
    ELSE LET built == build_index(Guidelines, RetrieverModel, disk, outcome)
         IN  [value |-> ~built.result.raised /\ built.disk.index # None,
              disk |-> built.disk]

\* The click on 'Generate Consultant Report' up to the construction of the
\* orchestrator: the script reruns with an empty page, ensure_rag_index is
\* called, and when it is True, ReportOrchestrator(), whose retriever loads the
\* index.
ensure_rag_index_step(outcome) ==
    /\ pc = "idle"
    /\ req < MaxRequests
    /\ LET ensured == ensure_rag_index(rag_disk, outcome)
       IN  /\ rag_disk' = ensured.disk
           /\ IF ensured.value
              THEN /\ pc' = "ensured"
                   /\ index' = load_index(ensured.disk)
                   /\ ui' = ""
              ELSE /\ ui' = "Cannot generate report without knowledge base"
                   /\ UNCHANGED <<pc, index>>
    /\ UNCHANGED <<req, today, callVars, storage, fnVars>>

\* generate_report up to the retry loop: the query is built and the snippets are
\* retrieved once; an exception of either ends the call in the outer handler.
generate_report_begin(p, n) ==
    /\ pc = "ensured"
    /\ req' = req + 1
    /\ patient_data' = Some(p)
    /\ max_retries' = n
    /\ context' = [previous_error |-> None]
    /\ attempt' = 0
    /\ report' = None
    /\ requests' = <<>>
    /\ replies' = <<>>
    /\ LET query == build_retrieval_query(p)
       IN  IF query.raised
           THEN /\ errors' = outer_handler(<<>>, query.msg)
                /\ snippets' = <<>>
                /\ pc' = "returned"
           ELSE /\ errors' = <<>>
                /\ \E s \in retrieve(index, query.value, RetrievalK) : snippets' = s
                /\ pc' = "attempting"
    /\ UNCHANGED <<today, index, rag_disk, ui, storage, fnVars>>

\* One iteration of the retry loop: one model request, the parse of its reply, the
\* citation check, and either the return of the report or the handling of the
\* exception (the message is recorded; the last attempt returns None, another one
\* stores the exception in the context).
generate_report_attempt(reply) ==
    /\ pc = "attempting"
    /\ requests' = Append(requests, Messages(context, snippets))
    /\ replies' = Append(replies, reply)
    /\ LET parsed == parse_report(reply)
           valid == validate_citations(parsed.value, snippets)
           failure == IF parsed.raised THEN parsed ELSE valid
       IN  IF ~parsed.raised /\ ~valid.raised
           THEN /\ errors' = IF valid.value THEN errors
                             ELSE Append(errors, InvalidCitations)
                /\ report' = Some(parsed.value)
                /\ pc' = "returned"
                /\ UNCHANGED <<context, attempt>>
           ELSE /\ errors' = inner_handler(errors, attempt, failure.msg)
                /\ IF attempt = max_retries
                   THEN /\ report' = None
                        /\ pc' = "returned"
                        /\ UNCHANGED <<context, attempt>>
                   ELSE /\ context' = [previous_error |-> Some(failure.msg)]
                        /\ attempt' = attempt + 1
                        /\ UNCHANGED <<report, pc>>
    /\ UNCHANGED <<req, today, index, rag_disk, patient_data, max_retries, snippets,
                   ui, storage, fnVars>>

\* render_report_generation after generate_report has returned: a report is saved
\* (an exception of save_report is shown by the handler), errors are shown.
render_report_generation(outcome) ==
    /\ pc = "returned"
    /\ storage' = IF report_truthy(report)
                  THEN save_report(storage, patient_data[1].uuid, DateStrs[today],
                                   req, outcome)
                  ELSE storage
    /\ ui' = IF ~report_truthy(report) THEN "Failed to generate report"
             ELSE IF outcome = "ok" THEN "Report generated successfully"
             ELSE "Report generation failed"
    /\ pc' = "idle"
    /\ patient_data' = None
    /\ max_retries' = 0
    /\ snippets' = <<>>
    /\ context' = [previous_error |-> None]
    /\ attempt' = 0
    /\ errors' = <<>>
    /\ report' = None
    /\ requests' = <<>>
    /\ replies' = <<>>
    /\ UNCHANGED <<req, today, index, rag_disk, fnVars>>

\* datetime.now() moves to the next date.
next_day ==
    /\ pc = "idle"
    /\ today < Len(DateStrs)
    /\ today' = today + 1
    /\ UNCHANGED <<pc, req, index, rag_disk, callVars, ui, storage, fnVars>>

Next ==
    \/ \E outcome \in EnsureOutcomes : ensure_rag_index_step(outcome)
    \/ \E p \in Patients, n \in 0..MaxRetriesBound : generate_report_begin(p, n)
    \/ \E reply \in Replies(SampleReports) : generate_report_attempt(reply)
    \/ \E outcome \in SaveOutcomes : render_report_generation(outcome)
    \/ next_day

Spec == Init /\ [][Next]_vars

(***************************************************************************)
(* Function-level specification of _validate_citations: the arguments are  *)
(* drawn from every report of the bounded shape and every snippet list the *)
(* retriever can return, and the function is applied once.                 *)
(***************************************************************************)
SnippetLists ==
    UNION {retrieve(idx, <<>>, RetrievalK) :
              idx \in Indexes}

InitValidate ==
    /\ MainIdle
    /\ NoExtraction
    /\ NoSession
    /\ NoRace
    /\ index = None
    /\ NoQuery
    /\ NoMerge
    /\ NoBuild
    /\ NoRetrieve
    /\ v_report \in {Some(r) : r \in AllReports}
    /\ v_snippets \in SnippetLists
    /\ v_result = None

validate_citations_call ==
    /\ v_report # None
    /\ v_result = None
    /\ v_result' = Some(validate_citations(v_report[1], v_snippets))
    /\ UNCHANGED <<mainVars, v_report, v_snippets, queryVars, mergeVars, buildVars,
                   retrieveVars, otherVars>>

NextValidate == validate_citations_call

SpecValidate == InitValidate /\ [][NextValidate]_vars

(***************************************************************************)
(* build_retrieval_query on its own: the argument is drawn at Init, the    *)
(* one action applies the function.                                        *)
(***************************************************************************)
InitQuery ==
    /\ MainIdle
    /\ NoExtraction
    /\ NoSession
    /\ NoRace
    /\ index = None
    /\ NoValidation
    /\ NoMerge
    /\ NoBuild
    /\ NoRetrieve
    /\ q_patient \in {Some(p) : p \in QueryPatients}
    /\ q_result = None

build_retrieval_query_call ==
    /\ q_patient # None
    /\ q_result = None
    /\ q_result' = Some(build_retrieval_query(q_patient[1]))
    /\ UNCHANGED <<mainVars, valVars, q_patient, mergeVars, buildVars, retrieveVars,
                   otherVars>>

NextQuery == build_retrieval_query_call

SpecQuery == InitQuery /\ [][NextQuery]_vars

(***************************************************************************)
(* merge_data_sources on its own.                                          *)
(***************************************************************************)
InitMerge ==
    /\ MainIdle
    /\ NoExtraction
    /\ NoSession
    /\ NoRace
    /\ index = None
    /\ NoValidation
    /\ NoQuery
    /\ NoBuild
    /\ NoRetrieve
    /\ m_form \in FormDicts
    /\ m_pdf \in PdfDicts
    /\ m_conflicts \in ConflictDicts
    /\ m_merged = None
    /\ m_result = None

merge_data_sources_call ==
    /\ m_form # None
    /\ m_result = None
    /\ LET out == merge_data_sources(m_form, m_pdf, m_conflicts)
       IN  /\ m_merged' = out.merged
           /\ m_result' = Some(out.result)
           /\ m_form' = out.form
           /\ m_pdf' = out.pdf
    /\ UNCHANGED <<mainVars, valVars, queryVars, m_conflicts, buildVars, retrieveVars,
                   otherVars>>

NextMerge == merge_data_sources_call

SpecMerge == InitMerge /\ [][NextMerge]_vars

(***************************************************************************)
(* build_index on its own: the corpus, the embedding model and the files   *)
(* already in data/rag are drawn at Init.                                  *)
(***************************************************************************)
InitBuild ==
    /\ MainIdle
    /\ NoExtraction
    /\ NoSession
    /\ NoRace
    /\ index = None
    /\ NoValidation
    /\ NoQuery
    /\ NoMerge
    /\ NoRetrieve
    /\ b_guidelines \in Corpora
    /\ b_model \in BuilderModels
    /\ b_disk \in {NoFiles, BuiltFiles}
    /\ b_result = None

build_index_call(outcome) ==
    /\ b_result = None
    /\ LET out == build_index(b_guidelines, b_model, b_disk, outcome)
       IN  /\ b_result' = Some(out.result)
           /\ b_disk' = out.disk
    /\ UNCHANGED <<mainVars, valVars, queryVars, mergeVars, b_guidelines, b_model,
                   retrieveVars, otherVars>>

NextBuild == \E outcome \in BuildOutcomes : build_index_call(outcome)

SpecBuild == InitBuild /\ [][NextBuild]_vars

(***************************************************************************)
(* retrieve on its own.  The retriever has loaded no index, the index of a *)
(* build (by either embedding model), an index without vectors, or the     *)
(* index.faiss of one build beside the metadata.json of another.           *)
(***************************************************************************)
FilesOf(guidelines, model) == build_index(guidelines, model, NoFiles, "ok").disk

RetrieveIndexes ==
    {None,
     Some([vectors |-> <<>>, model |-> RetrieverModel, metadata |-> <<>>]),
     load_index([index |-> FilesOf(<<LongGuideline, Guidelines[1]>>, RetrieverModel).index,
                 metadata |-> BuiltFiles.metadata])}
    \cup {load_index(FilesOf(g, m)) :
              g \in {Guidelines, <<LongGuideline>>}, m \in BuilderModels}

RetrieveKs == {0, 1, 2, RetrievalK}

InitRetrieve ==
    /\ MainIdle
    /\ NoExtraction
    /\ NoSession
    /\ NoRace
    /\ index = None
    /\ NoValidation
    /\ NoQuery
    /\ NoMerge
    /\ NoBuild
    /\ r_index \in RetrieveIndexes
    /\ r_k \in RetrieveKs
    /\ r_out = None

retrieve_call ==
    /\ r_out = None
    /\ \E o \in retrieve_outcomes(r_index, r_k) : r_out' = Some(o)
    /\ UNCHANGED <<mainVars, valVars, queryVars, mergeVars, buildVars, r_index, r_k,
                   otherVars>>

NextRetrieve == retrieve_call

SpecRetrieve == InitRetrieve /\ [][NextRetrieve]_vars

(***************************************************************************)
(* The PDF parser (agents/pdf_parser.py).  A text is kept as its length    *)
(* and the length of text.strip(); a page of a PDF as the lengths of its   *)
(* leading whitespace, its body and its trailing whitespace.  A JSON value *)
(* is tagged with its type.  An error message, a warning and a metadata    *)
(* text are sequences of strings, so that an f-string is a concatenation.  *)
(* A confidence is in hundredths, rounded down: the sixteen values         *)
(* min(15, count)/15 stay distinct.                                        *)
(***************************************************************************)
ScannedThreshold == 50

TotalPossible == 15

\* len("\n--- Page 1 ---\n"), the header that extract_text puts before a page.
HeaderLen == 16

Text(len, stripped) == [len |-> len, stripped |-> stripped]

Page(lead, body, trail) == [lead |-> lead, body |-> body, trail |-> trail]

PageLen(p) == p.lead + p.body + p.trail

\* A file is unreadable (fitz.open raises) or has pages.
Pdf(readable, pages) == [readable |-> readable, pages |-> pages]

Pdfs ==
    {Pdf(FALSE, <<>>)}
    \cup {Pdf(TRUE, pages) :
            pages \in {<<>>,
                       <<Page(0, 0, 0)>>,
                       <<Page(5, 0, 0)>>,
                       <<Page(0, 30, 1)>>,
                       <<Page(2, 49, 3)>>,
                       <<Page(0, 50, 1)>>,
                       <<Page(0, 10, 0), Page(0, 300, 0)>>,
                       <<Page(0, 300, 2), Page(4, 0, 0)>>}}

\* The texts handed to extract_structured_data: "", whitespace, a lab report.
Texts == {Text(0, 0), Text(3, 0), Text(300, 290)}

JNull == [t |-> "null"]

JNum(n) == [t |-> "num", n |-> n]

JStr(s) == [t |-> "str", s |-> s]

JList(l) == [t |-> "list", l |-> l]

JObj(o) == [t |-> "obj", o |-> o]

\* A key that the response does not have.
Absent == [t |-> "absent"]

LabKeys == {"hba1c_pct", "fpg_mmol", "ppg2h_mmol", "egfr", "creatinine_umol", "acr_mgmmol"}

LipidKeys == {"tc", "ldl", "hdl", "tg"}

VitalKeys == {"bp_sys", "bp_dia", "hr"}

ScreeningKeys == {"retina_date", "foot_date", "renal_date"}

\* A section of the prompt's template: the keys in found have the value v,
\* the others are null.
Leaves(keys, found, v) == [k \in keys |-> IF k \in found THEN v ELSE JNull]

LipidsValues ==
    {JNull, JObj(<<>>), JNum(520)}
    \cup {JObj(Leaves(LipidKeys, found, JNum(260))) :
            found \in {{}, {"ldl", "hdl"}, LipidKeys}}

LabsValues ==
    {Absent, JNull}
    \cup {JObj(Leaves(LabKeys, found, JNum(750)) @@ ("lipids" :> lip)) :
            found \in {{}, {"hba1c_pct"}, LabKeys}, lip \in LipidsValues}

VitalsValues ==
    {Absent, JNull, JObj(Leaves(VitalKeys, {}, JNull)),
     JObj(Leaves(VitalKeys, VitalKeys, JNum(13140)))}

ScreeningsValues ==
    {JObj(Leaves(ScreeningKeys, {}, JNull)),
     JObj(Leaves(ScreeningKeys, {"foot_date", "renal_date"}, JStr("2024-03-01"))
          @@ ("retina_date" :> JStr(""))),
     JObj(Leaves(ScreeningKeys, ScreeningKeys, JStr("2024-03-01")))}

WarningsValues == {Absent, JNull, JList(<< <<"HbA1c unit unclear">> >>)}

Entry(key, v) == IF v = Absent THEN <<>> ELSE (key :> v)

\* The JSON objects the model can answer with.
ExtractionData ==
    {Entry("labs", l) @@ Entry("vitals", v) @@ Entry("screenings", s)
        @@ Entry("warnings", w) :
        l \in LabsValues, v \in VitalsValues, s \in ScreeningsValues,
        w \in WarningsValues}

\* What chat.completions.create does: it raises, it answers without content,
\* with a text that is not JSON, or with a JSON value.
ExtractionReplies ==
    {[kind |-> "api_error"], [kind |-> "no_content"], [kind |-> "not_json"]}
    \cup {[kind |-> "json", value |-> v] :
            v \in {JNull, JNum(7), JList(<<>>)} \cup {JObj(d) : d \in ExtractionData}}

\* str(e) of the AttributeError of a call of attr on a value of type t.
AttributeError(t, attr) ==
    <<"'",
      CASE t = "null" -> "NoneType"
        [] t = "num" -> "float"
        [] t = "str" -> "str"
        [] t = "list" -> "list"
        [] t = "obj" -> "dict",
      "' object has no attribute '", attr, "'">>

ValidationError == <<"1 validation error for PDFExtraction">>

\* v is not None and v != ""
Extracted(v) == v.t # "null" /\ ~(v.t = "str" /\ v.s = "")

\* bool(v)
Truthy(v) ==
    CASE v.t = "null" -> FALSE
      [] v.t = "num" -> v.n # 0
      [] v.t = "str" -> v.s # ""
      [] v.t = "list" -> v.l # <<>>
      [] v.t = "obj" -> DOMAIN v.o # {}

\* sum(1 for v in d.values() if v is not None and v != "")
CountValues(o) == Cardinality({k \in DOMAIN o : Extracted(o[k])})

\* data.get(key, {})
Section(data, key) == IF key \in DOMAIN data THEN data[key] ELSE JObj(<<>>)

\* _count_extracted_fields: the count, or the AttributeError of .values() on
\* a section that is not a dict.
count_extracted_fields(data) ==
    LET labs == Section(data, "labs")
        vitals == Section(data, "vitals")
        screenings == Section(data, "screenings")
        has_lipids == "lipids" \in DOMAIN labs.o /\ Truthy(labs.o["lipids"])
    IN  IF labs.t # "obj" THEN Raise(AttributeError(labs.t, "values"))
        ELSE IF has_lipids /\ labs.o["lipids"].t # "obj"
        THEN Raise(AttributeError(labs.o["lipids"].t, "values"))
        ELSE IF vitals.t # "obj" THEN Raise(AttributeError(vitals.t, "values"))
        ELSE IF screenings.t # "obj"
        THEN Raise(AttributeError(screenings.t, "values"))
        ELSE Return(CountValues(labs.o)
                    + (IF has_lipids THEN CountValues(labs.o["lipids"].o) ELSE 0)
                    + CountValues(vitals.o)
                    + CountValues(screenings.o))

\* min(1.0, extracted_count / total_possible), in hundredths.
ExtractionConfidence(count) == (100 * Min(TotalPossible, count)) \div TotalPossible

PDFExtraction(labs, vitals, screenings, confidence, warnings, provenance) ==
    [labs |-> labs, vitals |-> vitals, screenings |-> screenings,
     confidence |-> confidence, warnings |-> warnings, provenance |-> provenance]

\* PDFExtraction(confidence=0.0, warnings=[warning])
ZeroConfidence(warning) == PDFExtraction(<<>>, <<>>, <<>>, 0, <<warning>>, <<>>)

\* not pdf_text.strip(), with the test on the text as it is.
Blank_unstripped(text) == text.len = 0

\* not pdf_text.strip()
Blank(text) == text.stripped = 0

\* The handler of lines 105-109 re-raising what it caught.
llm_extraction_reraised(e) == Raise(e)

\* except Exception as e, lines 105-109.
llm_extraction_failed(e) == Return(ZeroConfidence(<<"LLM extraction failed: ">> \o e))

\* except json.JSONDecodeError as e, lines 99-103.
json_parse_failed(e) == Return(ZeroConfidence(<<"Failed to parse extraction JSON: ">> \o e))

\* The body of the inner try for a parsed value, lines 80-97.
extraction_of(parsed) ==
    IF parsed.t # "obj" THEN llm_extraction_failed(AttributeError(parsed.t, "get"))
    ELSE LET data == parsed.o
             counted == count_extracted_fields(data)
             warnings == IF "warnings" \in DOMAIN data THEN data["warnings"]
                         ELSE JList(<<>>)
         IN  IF counted.raised THEN llm_extraction_failed(counted.msg)
             ELSE IF warnings.t # "list" THEN llm_extraction_failed(ValidationError)
             ELSE Return(PDFExtraction(
                      Section(data, "labs").o, Section(data, "vitals").o,
                      Section(data, "screenings").o,
                      ExtractionConfidence(counted.value), warnings.l,
                      [extraction_model |-> "gpt-4o-mini",
                       extracted_fields |-> counted.value]))

\* extract_structured_data: its outcome and the number of model calls made.
extract_structured_data(pdf_text, reply) ==
    IF Blank(pdf_text)
    THEN [out |-> Return(ZeroConfidence(<<"No text extracted from PDF">>)), calls |-> 0]
    ELSE [out |-> CASE reply.kind = "api_error" -> llm_extraction_failed(<<ApiError>>)
                    [] reply.kind = "no_content" ->
                           llm_extraction_failed(AttributeError("null", "strip"))
                    [] reply.kind = "not_json" -> json_parse_failed(<<JsonError>>)
                    [] reply.kind = "json" -> extraction_of(reply.value),
          calls |-> 1]

RECURSIVE TextLen(_)
\* len(text) after the loop of lines 32-35 over pages.
TextLen(pages) ==
    IF pages = <<>> THEN 0
    ELSE HeaderLen + PageLen(pages[1]) + TextLen(Tail(pages))

\* The whitespace that ends the text: that of the last page, and the page
\* with the newline of its header when the page has no body.
TrailingSpace(pages) ==
    LET last == pages[Len(pages)]
    IN  IF last.body = 0 THEN PageLen(last) + 1 ELSE last.trail

\* extract_text: the text and the metadata.
extract_text(pdf_file) ==
    IF ~pdf_file.readable
    THEN [text |-> Text(0, 0),
          metadata |-> [error |-> <<"PDF extraction failed: ", "cannot open broken document">>]]
    ELSE IF pdf_file.pages = <<>>
    THEN [text |-> Text(0, 0),
          metadata |-> [page_count |-> 0, text_length |-> 0,
                        filename |-> "uploaded_file"]]
    ELSE IF pdf_file.pages[1].body < ScannedThreshold
    THEN [text |-> Text(0, 0),
          metadata |-> [warning |-> <<"Document appears to be scanned - OCR not supported">>]]
    ELSE [text |-> Text(TextLen(pdf_file.pages),
                        TextLen(pdf_file.pages) - 1 - TrailingSpace(pdf_file.pages)),
          metadata |-> [page_count |-> Len(pdf_file.pages),
                        text_length |-> TextLen(pdf_file.pages),
                        filename |-> "uploaded_file"]]

\* parse_pdf: its outcome and the number of model calls made.
parse_pdf(pdf_file, reply) ==
    LET extracted == extract_text(pdf_file)
        metadata == extracted.metadata
    IN  IF extracted.text.len = 0
        THEN [out |-> Return(ZeroConfidence(
                         IF "warning" \in DOMAIN metadata THEN metadata.warning
                         ELSE IF "error" \in DOMAIN metadata THEN metadata.error
                         ELSE <<"Unknown extraction error">>)),
              calls |-> 0]
        ELSE LET r == extract_structured_data(extracted.text, reply)
             IN  IF r.out.raised THEN r
                 ELSE [out |-> Return([r.out.value EXCEPT
                                          !.provenance = metadata @@ @]),
                       calls |-> r.calls]

(***************************************************************************)
(* Function-level specification of the parser: one call of                 *)
(* extract_structured_data on a text, or of parse_pdf on a file, with the  *)
(* answer the endpoint gives if it is asked.                               *)
(***************************************************************************)
InitExtract ==
    /\ MainIdle
    /\ index = None
    /\ NoValidation
    /\ NoQuery
    /\ NoMerge
    /\ NoBuild
    /\ NoRetrieve
    /\ NoSession
    /\ NoRace
    /\ x_input \in {[kind |-> "text", text |-> t] : t \in Texts}
                   \cup {[kind |-> "pdf", file |-> f] : f \in Pdfs}
    /\ x_reply \in ExtractionReplies
    /\ x_result = None
    /\ x_calls = 0

extract_structured_data_call ==
    /\ x_result = None
    /\ x_input.kind = "text"
    /\ LET r == extract_structured_data(x_input.text, x_reply)
       IN  /\ x_result' = Some(r.out)
           /\ x_calls' = r.calls
    /\ UNCHANGED <<mainVars, valVars, queryVars, mergeVars, buildVars, retrieveVars,
                   x_input, x_reply, sessionVars, raceVars>>

parse_pdf_call ==
    /\ x_result = None
    /\ x_input.kind = "pdf"
    /\ LET r == parse_pdf(x_input.file, x_reply)
       IN  /\ x_result' = Some(r.out)
           /\ x_calls' = r.calls
    /\ UNCHANGED <<mainVars, valVars, queryVars, mergeVars, buildVars, retrieveVars,
                   x_input, x_reply, sessionVars, raceVars>>

NextExtract == extract_structured_data_call \/ parse_pdf_call

SpecExtract == InitExtract /\ [][NextExtract]_vars

(***************************************************************************)
(* The session of the Streamlit application (app.py, ui/components.py).    *)
(* Every event runs the script from the top: the intake form, the PDF      *)
(* import with the conflict resolver, then the report generation.          *)
(* st.rerun() ends the run at once and starts a run without an event.      *)
(* session_state holds patient_data, pdf_data and conflicts; {} is the     *)
(* empty function.  A value of pdf_data is None or Some(v).                *)
(***************************************************************************)
\* extraction.confidence > 0.1, in hundredths.
MeaningfulConfidence == 10

\* abs(val1 - val2) > tolerance: the tolerance 0.1 in hundredths.
Tolerance == 10

NewSession == [patient_data |-> <<>>, pdf_data |-> <<>>, conflicts |-> <<>>]

\* A JSON value of the extraction as the Python value stored in pdf_data.
PdfDataValue(v) ==
    IF v.t = "null" THEN None ELSE IF v.t = "num" THEN Some(v.n) ELSE Some(v)

\* pdf_data as lines 312-316 build it: the labs and the vitals side by side,
\* and the confidence of the extraction for each of their keys.
PdfDataOf(extraction) ==
    LET values == extraction.labs @@ extraction.vitals
    IN  [k \in DOMAIN values |-> PdfDataValue(values[k])]
        @@ ("_confidence" :> [k \in DOMAIN values |-> extraction.confidence])

\* _values_differ on two numbers.
values_differ(val1, val2) ==
    IF val1 = None \/ val2 = None THEN FALSE
    ELSE (IF val1[1] >= val2[1] THEN val1[1] - val2[1] ELSE val2[1] - val1[1])
            > Tolerance

\* The rows of conflict_data: a key of pdf_data that is a key of form_data,
\* with two values that differ.
ConflictFields(form_data, pdf_data) ==
    {field \in (DOMAIN pdf_data \ {"_confidence"}) \cap DOMAIN form_data :
        /\ form_data[field] # None
        /\ pdf_data[field] # None
        /\ values_differ(form_data[field], pdf_data[field])}

\* create_conflict_resolver in a run where the buttons of clicked, a set of
\* <<field, choice>>, are pressed: the dict it returns, or the rerun that a
\* pressed button of a shown row starts before the return.  The dict is the
\* local conflicts, which no button has filled when the return is reached.
create_conflict_resolver(form_data, pdf_data, clicked) ==
    IF \E c \in clicked : c[1] \in ConflictFields(form_data, pdf_data)
    THEN [rerun |-> TRUE]
    ELSE [rerun |-> FALSE, conflicts |-> <<>>]

\* The end of render_pdf_import, lines 336-341, in a run with the pressed
\* buttons clicked: session_state after it, and whether the run was ended.
resolve_conflicts(state, clicked) ==
    IF state.pdf_data # <<>> /\ state.patient_data # <<>>
    THEN LET r == create_conflict_resolver(state.patient_data, state.pdf_data, clicked)
         IN  IF r.rerun THEN [state |-> state, rerun |-> TRUE]
             ELSE [state |-> [state EXCEPT !.conflicts = r.conflicts], rerun |-> FALSE]
    ELSE [state |-> state, rerun |-> FALSE]

\* A run of the script without an event.
plain_run(state) == resolve_conflicts(state, {}).state

\* The answers of the extraction model in the session: a full report, one
\* with HbA1c and the vitals only, one with HbA1c alone.
SessionReplies ==
    LET labs(found, lipids) == JObj(Leaves(LabKeys, found, JNum(750)) @@ ("lipids" :> lipids))
        vitals == JObj(Leaves(VitalKeys, VitalKeys, JNum(13140)))
        no_dates == JObj(Leaves(ScreeningKeys, {}, JNull))
        dates == JObj(Leaves(ScreeningKeys, ScreeningKeys, JStr("2024-03-01")))
    IN  {[kind |-> "json", value |-> JObj(d)] :
            d \in {Entry("labs", labs(LabKeys, JObj(Leaves(LipidKeys, LipidKeys, JNum(260)))))
                       @@ Entry("vitals", vitals) @@ Entry("screenings", dates),
                   Entry("labs", labs({"hba1c_pct"}, JNull))
                       @@ Entry("vitals", vitals) @@ Entry("screenings", no_dates),
                   Entry("labs", labs({"hba1c_pct"}, JNull))
                       @@ Entry("screenings", no_dates)}}

SessionPdfs == {Pdf(TRUE, <<Page(0, 10, 0)>>), Pdf(TRUE, <<Page(0, 300, 2)>>)}

InitSession ==
    /\ MainIdle
    /\ index = None
    /\ NoValidation
    /\ NoQuery
    /\ NoMerge
    /\ NoBuild
    /\ NoRetrieve
    /\ NoExtraction
    /\ NoRace
    /\ s_state = NewSession
    /\ s_choices = <<>>
    /\ s_handed = None

\* "Save Patient Data": patient_data is stored and the script reruns.
save_patient_data(form_data) ==
    /\ s_state' = plain_run([s_state EXCEPT !.patient_data = form_data])
    /\ s_choices' = <<>>
    /\ UNCHANGED <<s_handed, mainVars, valVars, queryVars, mergeVars, buildVars,
                   retrieveVars, extractVars, raceVars>>

\* "Process PDF": a result above the confidence floor is stored as pdf_data
\* and the script reruns; otherwise the run goes on to the resolver.
process_pdf(pdf_file, reply) ==
    LET extraction == parse_pdf(pdf_file, reply).out.value
        stored == extraction.confidence > MeaningfulConfidence
    IN  /\ s_state' = plain_run(IF stored
                                THEN [s_state EXCEPT !.pdf_data = PdfDataOf(extraction)]
                                ELSE s_state)
        /\ s_choices' = IF stored THEN <<>> ELSE s_choices
        /\ UNCHANGED <<s_handed, mainVars, valVars, queryVars, mergeVars, buildVars,
                       retrieveVars, extractVars, raceVars>>

\* "Use Form" / "Use PDF" on the row of a conflicting field: the run of the
\* click, then the run that st.rerun() starts.
use_source(field, choice) ==
    /\ s_state.pdf_data # <<>>
    /\ s_state.patient_data # <<>>
    /\ field \in ConflictFields(s_state.patient_data, s_state.pdf_data)
    /\ LET clicked == resolve_conflicts(s_state, {<<field, choice>>})
       IN  s_state' = IF clicked.rerun THEN plain_run(clicked.state) ELSE clicked.state
    /\ s_choices' = (field :> choice) @@ s_choices
    /\ UNCHANGED <<s_handed, mainVars, valVars, queryVars, mergeVars, buildVars,
                   retrieveVars, extractVars, raceVars>>

\* "Generate Consultant Report" with a knowledge base: the run passes the
\* resolver, then merge_data_sources gets the three dicts of the session;
\* what it returns goes to generate_report.  The rounding of
\* normalize_patient_data stays in the dicts of the session.
generate_report_click ==
    /\ s_state.patient_data # <<>>
    /\ LET state == plain_run(s_state)
           merge == merge_data_sources(state.patient_data, state.pdf_data,
                                       state.conflicts)
       IN  /\ s_handed' = Some([form_data |-> state.patient_data,
                                pdf_data |-> state.pdf_data,
                                conflicts |-> state.conflicts,
                                result |-> merge.result])
           /\ s_state' = plain_run([state EXCEPT !.patient_data = merge.form,
                                                 !.pdf_data = merge.pdf])
    /\ UNCHANGED <<s_choices, mainVars, valVars, queryVars, mergeVars, buildVars,
                   retrieveVars, extractVars, raceVars>>

\* "Start New Report": the keys are deleted and the rerun initialises them.
start_new_report ==
    /\ s_state # NewSession
    /\ s_state' = NewSession
    /\ s_choices' = <<>>
    /\ UNCHANGED <<s_handed, mainVars, valVars, queryVars, mergeVars, buildVars,
                   retrieveVars, extractVars, raceVars>>

NextSession ==
    \/ \E form_data \in FormDicts : save_patient_data(form_data)
    \/ \E pdf_file \in SessionPdfs, reply \in SessionReplies : process_pdf(pdf_file, reply)
    \/ \E field \in VitalKeys \cup LabKeys, choice \in {"form", "pdf"} :
           use_source(field, choice)
    \/ generate_report_click
    \/ start_new_report

SpecSession == InitSession /\ [][NextSession]_vars

(***************************************************************************)
(* Two sessions on one data/rag directory.  One runs build_index, which    *)
(* writes index.faiss and then metadata.json (index_builder.py lines       *)
(* 176-180); the other handles a click on 'Generate Consultant Report':    *)
(* ensure_rag_index, then RAGRetriever(), whose _load_index tests the two  *)
(* files, reads index.faiss and then metadata.json.  No lock is taken by   *)
(* either, so the steps interleave freely.  The build of the first session *)
(* succeeds; a failing build is the subject of the builder's own           *)
(* specification.                                                          *)
(***************************************************************************)
\* The corpora that build_index turns into an index.
BuildableCorpora ==
    {c \in Corpora : ~build_index(c, RetrieverModel, NoFiles, "ok").result.raised}

InitRace ==
    /\ MainIdle
    /\ index = None
    /\ NoValidation
    /\ NoQuery
    /\ NoMerge
    /\ NoBuild
    /\ NoRetrieve
    /\ NoExtraction
    /\ NoSession
    /\ k_disk \in {NoFiles, BuiltFiles}
    /\ k_build \in {[pc |-> "start", guidelines |-> c, model |-> m] :
                       c \in BuildableCorpora, m \in BuilderModels}
    /\ k_read = "start"
    /\ k_index = None

\* build_index up to faiss.write_index: the disk is as a build leaves it that
\* fails while writing metadata.json.
build_index_writes_index ==
    /\ k_build.pc = "start"
    /\ k_disk' = build_index(k_build.guidelines, k_build.model, k_disk,
                             "metadata_write_fails").disk
    /\ k_build' = [k_build EXCEPT !.pc = "index_written"]
    /\ UNCHANGED <<k_read, k_index, mainVars, valVars, queryVars, mergeVars,
                   buildVars, retrieveVars, extractVars, sessionVars>>

\* build_index from json.dump to its return.
build_index_writes_metadata ==
    /\ k_build.pc = "index_written"
    /\ k_disk' = build_index(k_build.guidelines, k_build.model, k_disk, "ok").disk
    /\ k_build' = [k_build EXCEPT !.pc = "done"]
    /\ UNCHANGED <<k_read, k_index, mainVars, valVars, queryVars, mergeVars,
                   buildVars, retrieveVars, extractVars, sessionVars>>

\* ensure_rag_index in the session of the click.
reader_ensures(outcome) ==
    /\ k_read = "start"
    /\ LET r == ensure_rag_index(k_disk, outcome)
       IN  /\ k_disk' = r.disk
           /\ k_read' = IF r.value THEN "ensured" ELSE "refused"
    /\ UNCHANGED <<k_build, k_index, mainVars, valVars, queryVars, mergeVars,
                   buildVars, retrieveVars, extractVars, sessionVars>>

\* _load_index, lines 31-35: without one of the files the retriever stays
\* without an index; otherwise index.faiss is read, metadata being [].
reader_reads_index ==
    /\ k_read = "ensured"
    /\ IF load_index(k_disk) = None
       THEN /\ k_index' = None
            /\ k_read' = "constructed"
       ELSE /\ k_index' = Some([load_index(k_disk)[1] EXCEPT !.metadata = <<>>])
            /\ k_read' = "index_read"
    /\ UNCHANGED <<k_disk, k_build, mainVars, valVars, queryVars, mergeVars,
                   buildVars, retrieveVars, extractVars, sessionVars>>

\* _load_index, lines 37-38: metadata.json is read.
reader_reads_metadata ==
    /\ k_read = "index_read"
    /\ k_index' = Some([k_index[1] EXCEPT !.metadata = load_index(k_disk)[1].metadata])
    /\ k_read' = "constructed"
    /\ UNCHANGED <<k_disk, k_build, mainVars, valVars, queryVars, mergeVars,
                   buildVars, retrieveVars, extractVars, sessionVars>>

NextRace ==
    \/ build_index_writes_index
    \/ build_index_writes_metadata
    \/ \E outcome \in EnsureOutcomes : reader_ensures(outcome)
    \/ reader_reads_index
    \/ reader_reads_metadata

SpecRace == InitRace /\ [][NextRace]_vars

(***************************************************************************)
(* The claims.                                                             *)
(***************************************************************************)
SnippetIds(snips) == {snips[i].id : i \in 1..Len(snips)}

DictIds(d) == IF "citation_ids" \in DOMAIN d THEN d.citation_ids ELSE {}

\* The citation ids of the three body fields the claims C2 and C3 name.
BodyIds(rep) ==
    UNION {DictIds(rep.interpretation[i]) : i \in 1..Len(rep.interpretation)}
    \cup UNION {rep.lifestyle_plan[i].citation_ids : i \in 1..Len(rep.lifestyle_plan)}
    \cup UNION {rep.medication_plan[i].citation_ids : i \in 1..Len(rep.medication_plan)}

\* The citation ids of every recommendation-bearing field.
RecommendationIds(rep) ==
    BodyIds(rep) \cup DictIds(rep.diet_plan) \cup DictIds(rep.monitoring_plan)

\* The ids of the entries of the citations list.
ListedIds(rep) ==
    {rep.citations[i].id : i \in {j \in 1..Len(rep.citations) :
                                     "id" \in DOMAIN rep.citations[j]}}

Accepted == pc = "returned" /\ report # None
Failed == pc = "returned" /\ report = None

\* C1: every citation id of a recommendation-bearing field of a returned report
\* is the id of a snippet retrieved during that call.
C1_CitationSoundness ==
    Accepted => RecommendationIds(report[1]) \subseteq SnippetIds(snippets)

\* C2: every citation id of the body of a returned report is the id of an entry
\* of the report's own citations list.
C2_BodyCitationsListed ==
    Accepted => BodyIds(report[1]) \subseteq ListedIds(report[1])

\* C3: _validate_citations returns True if and only if the ids of the body and of
\* the citations list are all ids of snippets, and it leaves its arguments alone.
C3_ValidateIff ==
    v_result # None =>
        (v_result[1] = Return(TRUE))
        <=> (BodyIds(v_report[1]) \cup ListedIds(v_report[1])
                \subseteq SnippetIds(v_snippets))

\* C4: a reply that parses into a ReportOut is returned by that same attempt,
\* whether or not its citations validate: it ends the call with that report.
C4_ParsedReportReturned ==
    \A i \in 1..Len(replies) :
        replies[i].kind = "report" =>
            /\ i = Len(replies)
            /\ pc = "returned"
            /\ report = Some(replies[i].report)

\* C5: at most max_retries + 1 model calls, none after a success, and the call
\* ends without a report exactly when all max_retries + 1 attempts have failed.
C5_BoundedRetry ==
    /\ Len(requests) <= max_retries + 1
    /\ Accepted => replies[Len(replies)].kind = "report"
    /\ Failed <=> (pc = "returned" /\ Len(requests) = max_retries + 1
                   /\ Len(errors) = max_retries + 1
                   /\ \A i \in 1..Len(errors) : errors[i].kind = "Attempt failed")

\* The exception an attempt ends with when its reply is no returned report.
FailureOf(reply) ==
    CASE reply.kind = "api_error" -> ApiError
      [] reply.kind = "not_json" -> JsonError
      [] reply.kind = "bad_shape" -> SchemaError
      [] reply.kind = "report" -> KeyErrorId

FailedAttempts == IF Accepted THEN Len(replies) - 1 ELSE Len(replies)

IsAttemptMessage(m) == m.kind = "Attempt failed"

\* C6: the error list holds, in attempt order, one message for each failed attempt
\* and drops none, whether the call ends with a report or without one.
C6_ErrorsKeepEveryAttempt ==
    LET msgs == SelectSeq(errors, IsAttemptMessage)
    IN  /\ Len(msgs) = FailedAttempts
        /\ \A i \in 1..Len(msgs) :
              /\ msgs[i] = AttemptFailed(i, FailureOf(replies[i]))
              /\ errors[i] = msgs[i]
        /\ Failed /\ replies # <<>> => Len(errors) = max_retries + 1

\* Scenario E: attempt 1 malformed, attempt 2 valid, the report is returned and
\* the message of attempt 1 is in the error list.
C6_Witness ==
    /\ Accepted
    /\ Len(replies) = 2
    /\ replies[1].kind = "not_json"
    /\ errors[1] = AttemptFailed(1, JsonError)

\* The previous-error messages of one request.
PreviousErrors(msgs) ==
    LET extra == SelectSeq(msgs, LAMBDA m : m.part = "previous_error")
    IN  [i \in 1..Len(extra) |-> extra[i].error]

\* C7: the first request of a call carries no previous-error message, and every
\* later request carries the error of the attempt just before it, as its last,
\* user-role message.
C7_FeedbackOrdering ==
    \A i \in 1..Len(requests) :
        /\ PreviousErrors(requests[i]) = IF i = 1 THEN <<>> ELSE <<errors[i - 1].msg>>
        /\ i > 1 => /\ requests[i][Len(requests[i])].part = "previous_error"
                    /\ requests[i][Len(requests[i])].role = "user"
                    /\ errors[i - 1] = AttemptFailed(i - 1, FailureOf(replies[i - 1]))

C7_Witness ==
    /\ Len(requests) = 2
    /\ PreviousErrors(requests[2]) = <<JsonError>>
    /\ PreviousErrors(requests[1]) = <<>>

\* C8: every failure inside generate_report ends in the returned pair, and a call
\* that returns no report returns at least one error string.
C8_FailureIsReported ==
    /\ pc \in {"idle", "ensured", "attempting", "returned"}
    /\ Failed => errors # <<>>
    /\ Failed /\ replies = <<>> =>
          errors = <<GenerationFailed(build_retrieval_query(patient_data[1]).msg)>>

C8_Witness ==
    /\ Failed
    /\ replies = <<>>
    /\ errors[1].kind = "Report generation failed"

\* C9: the storage changes only in the step that handles a returned report: no
\* step of generate_report writes, and a call that returned no report is
\* followed by no write.
C9_FailedWritesNothing ==
    [][storage' # storage => Accepted]_vars

C9_Witness ==
    /\ pc = "idle"
    /\ ui = "Failed to generate report"
    /\ \E d \in Dirs : storage[d].report # 0

\* C10: a directory never holds report.json without patient_data.json, nor with
\* the patient_data.json of another generation request, and a report.json that
\* exists is never changed.
C10_PairConsistency ==
    [][\A d \in Dirs :
          /\ storage'[d].report # 0 => storage'[d].patient = storage'[d].report
          /\ storage[d].report # 0 => storage'[d].report = storage[d].report]_vars

\* What the phrases of a query are said to depend on: a value that is present.
HasLipidValue(p) ==
    /\ p.labs.lipids # None
    /\ \E item \in p.labs.lipids[1] : item[2] # None

HasInsulinMed(p) ==
    \E i \in 1..Len(p.meds) :
        "name" \in DOMAIN p.meds[i] /\ p.meds[i].name \in InsulinNames

PhrasesByPresence(p) ==
    (IF p.diabetes_type # "" THEN <<p.diabetes_type \o " diabetes">> ELSE <<>>)
    \o (IF p.labs.hba1c_pct # None THEN <<"HbA1c blood glucose control">> ELSE <<>>)
    \o (IF p.bp_sys # None THEN <<"blood pressure hypertension">> ELSE <<>>)
    \o (IF HasLipidValue(p) THEN <<"cholesterol lipids cardiovascular risk">> ELSE <<>>)
    \o (IF p.hypos_90d # None /\ p.hypos_90d[1] # 0
        THEN <<"hypoglycaemia management">> ELSE <<>>)
    \o (IF HasInsulinMed(p) THEN <<"insulin therapy">> ELSE <<>>)
    \o <<"screening retinopathy kidney foot">>

\* C13: build_retrieval_query returns, for every patient state, the phrases in
\* the fixed order, each one exactly when its value is present (type, HbA1c,
\* systolic BP, at least one lipid value, a non-zero hypoglycaemia count, a
\* medication naming insulin), followed by the screening phrase.
C13_QueryPhrases ==
    q_result # None => q_result[1] = Return(PhrasesByPresence(q_patient[1]))

NoSignal(p) ==
    /\ p.diabetes_type = ""
    /\ p.labs.hba1c_pct = None
    /\ p.bp_sys = None
    /\ ~HasLipidValue(p)
    /\ p.hypos_90d = Some(0)
    /\ ~HasInsulinMed(p)

PdfWins(f) ==
    \/ f \in DOMAIN m_conflicts /\ m_conflicts[f] = "pdf"
    \/ /\ f \notin DOMAIN m_conflicts
       /\ "_confidence" \in DOMAIN m_pdf
       /\ f \in DOMAIN m_pdf["_confidence"]
       /\ m_pdf["_confidence"][f] > 70

C12_ArgumentsUnchanged ==
    [][/\ m_form' = m_form
       /\ m_pdf' = m_pdf
       /\ m_conflicts' = m_conflicts]_vars

\* C17: after a build_index call that returned, index.faiss holds as many vectors
\* as metadata.json holds entries, and entry i names the guideline and the
\* chunk number of the chunk that vector i embeds.
C17_IndexMatchesMetadata ==
    (b_result # None /\ ~b_result[1].raised) =>
        /\ b_disk.index # None
        /\ b_disk.metadata # None
        /\ Len(b_disk.index[1].vectors) = Len(b_disk.metadata[1])
        /\ \A i \in 1..Len(b_disk.metadata[1]) :
               LET chunk == b_disk.index[1].vectors[i].embedding_of
               IN  b_disk.metadata[1][i].id =
                       chunk.guideline \o "_chunk_"
                       \o ToString(chunk.from \div (ChunkSize - Overlap))

\* A build that returned and wrote three vectors: two chunks of the long
\* guideline, then the chunk of a short one.
C17_Witness ==
    /\ b_result # None
    /\ ~b_result[1].raised
    /\ Len(b_disk.index[1].vectors) = 3
    /\ b_disk.metadata[1][2].id = "nice_ng28_lipids_chunk_1"
    /\ b_disk.metadata[1][3].id = "nice_ng17_hba1c_chunk_0"

\* C18: a build_index call that raised left the files of data/rag as they
\* were: it wrote neither index.faiss nor metadata.json.
C18_FailedBuildWritesNothing ==
    [][(b_result' # None /\ b_result'[1].raised) => b_disk' = b_disk]_vars

IndexSize == IF r_index = None THEN 0 ELSE Len(r_index[1].vectors)

\* C15: retrieve returns at most min(k, index size) results, in non-increasing
\* order of score, each one the metadata entry at a position the search matched
\* with the score of that match; with k = 0, an index without vectors or no
\* index it returns the empty list.
C15_RetrieveResults ==
    r_out # None =>
        LET results == r_out[1].results
            hit == r_out[1].hit
        IN  /\ Len(results) <= Min(r_k, IndexSize)
            /\ \A i, j \in 1..Len(results) :
                   i < j => results[i].relevance_score >= results[j].relevance_score
            /\ \A j \in 1..Len(results) :
                   \E i \in 1..Len(hit.rank) :
                       /\ hit.rank[i] <= Len(r_index[1].metadata)
                       /\ results[j].id = r_index[1].metadata[hit.rank[i]].id
                       /\ results[j].source = r_index[1].metadata[hit.rank[i]].source
                       /\ results[j].section = r_index[1].metadata[hit.rank[i]].section
                       /\ results[j].relevance_score = hit.score[i]
            /\ (r_k = 0 \/ IndexSize = 0) => results = <<>>

\* A retrieval with k = 6 on an index of three vectors and two metadata entries
\* that matched all three positions and returned the two that have an entry,
\* the second position first.
C15_Witness ==
    /\ r_out # None
    /\ r_k = RetrievalK
    /\ IndexSize = 3
    /\ Len(r_out[1].hit.rank) = 3
    /\ Len(r_out[1].results) = 2
    /\ r_out[1].results[1].id = "nice_ng28_bp_chunk_0"
    /\ r_out[1].results[1].relevance_score = 90
    /\ r_out[1].results[2].relevance_score = 80

\* C16: on an index built with another embedding model than the retriever's,
\* retrieve does not search.
C16_NoSearchOnModelMismatch ==
    (r_out # None /\ r_index # None /\ r_index[1].model # RetrieverModel) =>
        ~r_out[1].searched

\* C20: every result of retrieve carries id, source, section, the score and
\* the text of the matched chunk.
C20_ResultsCarryText ==
    r_out # None =>
        \A j \in 1..Len(r_out[1].results) :
            {"id", "source", "section", "relevance_score", "text"}
                \subseteq DOMAIN r_out[1].results[j]

\* C19: generation proceeds only when both index.faiss and metadata.json are
\* in data/rag: with either one absent at the click, the index is rebuilt first.
C19_GenerationNeedsBothFiles ==
    pc \in {"ensured", "attempting", "returned"} =>
        rag_disk.index # None /\ rag_disk.metadata # None

\* C24: in one generate_report call the snippets are retrieved with k = 6 in
\* the step before the first model request; they change in no other step of
\* the call (only when its locals are dropped at the end); every request
\* carries them, and the warning of a returned report is the verdict of the
\* citation check against them.
C24_OneRetrievalPerCall ==
    [][/\ (pc = "ensured" /\ pc' = "attempting") =>
              /\ requests' = <<>>
              /\ snippets' \in retrieve(index, <<>>, RetrievalK)
       /\ snippets' # snippets => pc \in {"ensured", "returned"}
       /\ \A i \in 1..Len(requests') :
              requests'[i][2].retrieved_snippets = snippets'
       /\ (pc = "attempting" /\ pc' = "returned" /\ report' # None) =>
              ((InvalidCitations \in Range(errors'))
                  <=> ~(BodyIds(report'[1]) \cup ListedIds(report'[1])
                           \subseteq SnippetIds(snippets)))]_vars

\* A call whose second request carries the two snippets retrieved at its start.
C24_Witness ==
    /\ pc = "returned"
    /\ Len(requests) = 2
    /\ Len(snippets) = 2
    /\ requests[1][2].retrieved_snippets = snippets
    /\ requests[2][2].retrieved_snippets = snippets

\* C27: build_retrieval_query returns a query for every PatientIntake.dict().
C27_QueryIsTotal ==
    (q_result # None /\ q_patient[1].diabetes_type \in {"T1DM", "T2DM"}) =>
        ~q_result[1].raised

\* C30: a model request is issued only with a non-empty snippet list, and a
\* call that retrieved nothing ends without a report and with an error.
C30_ModelCallNeedsSnippets ==
    /\ requests # <<>> => snippets # <<>>
    /\ (pc = "returned" /\ snippets = <<>>) => (report = None /\ errors # <<>>)

\* The input of the call has no usable text: the text is empty or whitespace,
\* or the file cannot be read, has no page, or has a first page with fewer
\* than ScannedThreshold characters of text.
NoUsableText ==
    \/ x_input.kind = "text" /\ x_input.text.stripped = 0
    \/ /\ x_input.kind = "pdf"
       /\ \/ ~x_input.file.readable
          \/ x_input.file.pages = <<>>
          \/ x_input.file.pages[1].body < ScannedThreshold

\* C21: with no usable text, extract_structured_data and parse_pdf return a
\* result of confidence 0.0 with one warning that tells why (no text, scanned
\* document, failed extraction), and no model call is made.
C21_NoModelCallWithoutText ==
    (x_result # None /\ NoUsableText) =>
        /\ x_calls = 0
        /\ ~x_result[1].raised
        /\ x_result[1].value.confidence = 0
        /\ Len(x_result[1].value.warnings) = 1
        /\ x_result[1].value.warnings[1] =
              IF x_input.kind = "text" THEN <<"No text extracted from PDF">>
              ELSE IF ~x_input.file.readable
              THEN <<"PDF extraction failed: ", "cannot open broken document">>
              ELSE IF x_input.file.pages = <<>> THEN <<"Unknown extraction error">>
              ELSE <<"Document appears to be scanned - OCR not supported">>

\* extract_structured_data has returned for a whitespace-only text.
C21_Witness ==
    /\ x_result # None
    /\ x_input.kind = "text"
    /\ x_input.text.len > 0
    /\ x_input.text.stripped = 0
    /\ x_calls = 0

\* parse_pdf has returned for a file whose first page has 49 characters of
\* text between whitespace, while the endpoint would have answered.
C21_WitnessScanned ==
    /\ x_result # None
    /\ x_input.kind = "pdf"
    /\ x_input.file.readable
    /\ x_input.file.pages # <<>>
    /\ x_input.file.pages[1].body = ScannedThreshold - 1
    /\ x_reply.kind = "json"
    /\ x_calls = 0

\* The response is JSON of a shape the parser cannot read: not an object, a
\* section or the lipids entry that is not an object (lipids may be null or
\* empty), or warnings that is not a list.
WrongShape(reply) ==
    /\ reply.kind = "json"
    /\ \/ reply.value.t # "obj"
       \/ \E key \in {"labs", "vitals", "screenings"} :
              key \in DOMAIN reply.value.o /\ reply.value.o[key].t # "obj"
       \/ /\ "labs" \in DOMAIN reply.value.o
          /\ reply.value.o["labs"].t = "obj"
          /\ "lipids" \in DOMAIN reply.value.o["labs"].o
          /\ reply.value.o["labs"].o["lipids"].t \in {"num", "str", "list"}
       \/ "warnings" \in DOMAIN reply.value.o /\ reply.value.o["warnings"].t # "list"

ParsedResponse ==
    /\ x_result # None
    /\ x_calls = 1
    /\ x_reply.kind = "json"
    /\ ~WrongShape(x_reply)

\* The number of leaf fields of labs, lipids, vitals and screenings that have
\* a value, the lipids entry of labs not being a leaf.
LeafCount(data) ==
    LET labs == Section(data, "labs").o
    IN  Cardinality({k \in DOMAIN labs \ {"lipids"} : Extracted(labs[k])})
        + (IF "lipids" \in DOMAIN labs /\ labs["lipids"].t = "obj"
           THEN CountValues(labs["lipids"].o) ELSE 0)
        + CountValues(Section(data, "vitals").o)
        + CountValues(Section(data, "screenings").o)

\* C28: the extracted-field count is the number of leaf fields with a value,
\* and a response whose leaves are all null gets confidence 0.0.
C28_CountIsLeafCount ==
    ParsedResponse =>
        /\ x_result[1].value.provenance.extracted_fields = LeafCount(x_reply.value.o)
        /\ LeafCount(x_reply.value.o) = 0 => x_result[1].value.confidence = 0

\* C22: for a response that parses the confidence is min(1.0, n/15), n the
\* number of extracted fields, and every result's confidence is in [0.0, 1.0].
C22_ConfidenceFormula ==
    /\ (x_result # None /\ ~x_result[1].raised) =>
          x_result[1].value.confidence \in 0..100
    /\ ParsedResponse =>
          x_result[1].value.confidence =
              (100 * Min(TotalPossible, LeafCount(x_reply.value.o))) \div TotalPossible

\* C25: a choice clicked in the conflict resolver is in
\* st.session_state.conflicts after the click's script runs, and is among the
\* conflicts the next report generation passes to merge_data_sources.
C25_ChoiceReachesMerge ==
    [][/\ \A field \in DOMAIN s_choices' :
              /\ field \in DOMAIN s_state'.conflicts
              /\ s_state'.conflicts[field] = s_choices'[field]
       /\ (s_handed' # s_handed /\ s_handed' # None) =>
              \A field \in DOMAIN s_choices :
                  /\ field \in DOMAIN s_handed'[1].conflicts
                  /\ s_handed'[1].conflicts[field] = s_choices[field]]_vars

\* C29: a lab value of the uploaded PDF (hba1c_pct) with a confidence above
\* 0.7 and without a resolution is the value of that lab in the labs of the
\* PatientIntake handed to generate_report.
C29_PdfLabReachesReport ==
    (/\ s_handed # None
     /\ ~s_handed[1].result.raised
     /\ "hba1c_pct" \in DOMAIN s_handed[1].pdf_data
     /\ s_handed[1].pdf_data["hba1c_pct"] # None
     /\ "hba1c_pct" \notin DOMAIN s_handed[1].conflicts
     /\ Confidence(s_handed[1].pdf_data, "hba1c_pct") > ConfidenceThreshold)
        => s_handed[1].result.value.labs.hba1c_pct = s_handed[1].pdf_data["hba1c_pct"]

\* C26: in every interleaving of a build_index run with ensure_rag_index and
\* the construction of the retriever in another session, the retriever
\* constructed after ensure_rag_index returned True has an index with as many
\* vectors as metadata entries.
C26_LoadedPairIsConsistent ==
    k_read = "constructed" =>
        /\ k_index # None
        /\ Len(k_index[1].vectors) = Len(k_index[1].metadata)

====
